---- MODULE Spec2Model ----
(***************************************************************************)
(* Tracker lifecycle and detection reconciliation of                       *)
(* ultralytics/tracker/track.py: on_predict_start builds the tracker set   *)
(* of a predictor, on_predict_postprocess_end feeds every slot's           *)
(* detections to a tracker and rewrites the slot's result from the tracks, *)
(* register_tracker binds both handlers to the prediction events.          *)
(*                                                                         *)
(* Indices are 0-based as in the source (slot i, back-reference idx);      *)
(* a TLA+ sequence is indexed with i + 1.  Tracker objects live in `heap`  *)
(* and are named by their address (the position in heap), so that "the     *)
(* same object" is equality of addresses.                                  *)
(***************************************************************************)
EXTENDS Integers, Sequences, FiniteSets, TLC

\* --- bounds -------------------------------------------------------------
MaxBS == 2          \* largest batch size (predictor.dataset.bs)
MaxBatches == 2     \* batches predicted over a behaviour
MaxTrackers == 3    \* tracker objects constructed over a behaviour
MaxDets == 3        \* detections in one batch, all slots together

\* --- program constants ----------------------------------------------------
FRAME_RATE == 30

Objects == {"a", "b", "c"}
\* TRACKER_MAP = {'bytetrack': BYTETracker, 'botsort': BOTSORT}
TRACKER_MAP == [bytetrack |-> "BYTETracker", botsort |-> "BOTSORT"]
SupportedTypes == {"bytetrack", "botsort"}
\* what the tracker profile named by predictor.args.tracker holds:
\* a supported type, an unsupported type, no file, a file without tracker_type
Profiles == SupportedTypes \cup {"deepsort", "missing", "nofield"}

VARIABLES
    cb,          \* callbacks bound by register_tracker
    from_img,    \* predictor.source_type.from_img
    bs,          \* predictor.dataset.bs
    hasTrackers, \* hasattr(predictor, 'trackers')
    trackers,    \* predictor.trackers: sequence of tracker addresses
    heap,        \* every tracker object constructed so far
    results,     \* predictor.results: one container per slot
    pc,          \* "idle": no run, "loop": a run is in progress,
                 \* "failed": a handler raised and the run is abandoned
    lastInit,    \* what the on_predict_start call that just returned did
    err,         \* exception that ended the last handler, "" if none
    nbatch,      \* batches predicted so far
    det0,        \* predictor.results as the detector left them (this batch)
    calls,       \* the update calls issued for this batch, in order
    built,       \* assignment mode the tracker set was built in
    route,       \* source kind, batch size and flag the set was built for
    reads,       \* the slots whose result the handler fetched (this batch)
    ident,       \* per tracker and object: identity first reported in a result
    issued       \* largest identity issued by a tracker that was discarded since

vars == <<cb, from_img, bs, hasTrackers, trackers, heap, results, pc,
          lastInit, err, nbatch, det0, calls, built, route, reads,
          ident, issued>>

\* --- helpers --------------------------------------------------------------
Range(s) == {s[k] : k \in DOMAIN s}

RECURSIVE SumLen(_)
SumLen(ss) == IF ss = <<>> THEN 0 ELSE Len(Head(ss)) + SumLen(Tail(ss))

\* --- detections -------------------------------------------------------------
\* A detection as the detector leaves it: the object it shows, the detector's
\* region, no identity.
Detection(o) == [obj |-> o, box |-> "det", id |-> 0]

\* the frames the detector can produce for one slot
Frames ==
    { <<>>,
      <<Detection("a")>>,
      <<Detection("a"), Detection("b"), Detection("c")>> }

\* --- tracker strategy (BYTETracker / BOTSORT) ------------------------------
NoIds == [o \in Objects |-> 0]

\* mutant: the constructor is BYTETracker whatever the configured type
NewTracker_AlwaysByte(tracker_type) ==
    [kind |-> "BYTETracker", args |-> tracker_type,
     frame_rate |-> FRAME_RATE,
     ids |-> NoIds, count |-> 0]

\* TRACKER_MAP[cfg.tracker_type](args=cfg, frame_rate=30)
NewTracker(tracker_type) ==
    [kind |-> TRACKER_MAP[tracker_type], args |-> tracker_type,
     frame_rate |-> FRAME_RATE,
     ids |-> NoIds, count |-> 0]

\* a tracker object that is referenced no longer and was reclaimed
Freed ==
    [kind |-> "freed", args |-> "", frame_rate |-> 0,
     ids |-> NoIds, count |-> 0]

\* identities of the objects objs, in order: a known object keeps its
\* identity, a new one gets the tracker's next number
RECURSIVE AssignIds(_, _, _)
AssignIds(ids, count, objs) ==
    IF objs = <<>> THEN [ids |-> ids, count |-> count]
    ELSE LET o == Head(objs) IN
         IF ids[o] # 0 THEN AssignIds(ids, count, Tail(objs))
         ELSE AssignIds([ids EXCEPT ![o] = count + 1], count + 1, Tail(objs))

\* the rows a tracker can return for det, `out` being the back-references
\* (last column) of the rows: no row, a row for every detection in detection
\* order, or (dropping and reordering) the last detection, then the first
TrackerOutputs(det) ==
    {<<>>, [k \in 1 .. Len(det) |-> k - 1]}
      \cup (IF Len(det) >= 2 THEN {<<Len(det) - 1, 0>>} ELSE {})

\* tracker.update(det, img) with the tracker choosing the rows `out`
TrackerUpdate(t, det, out) ==
    LET objs == [k \in 1 .. Len(out) |-> det[out[k] + 1].obj]
        a == AssignIds(t.ids, t.count, objs)
    IN [state |-> [t EXCEPT !.ids = a.ids, !.count = a.count],
        tracks |-> [k \in 1 .. Len(out) |->
                      [box |-> "kf", id |-> a.ids[objs[k]], idx |-> out[k]]]]


\* --- on_predict_start -------------------------------------------------------
\* mutant: the flag is read inverted
PersistShortcut_Inverted(has, persist) == has /\ ~persist

\* mutant: the set is rebuilt on every call
PersistShortcut_Never(has, persist) == FALSE

\* line 26: the persist shortcut
PersistShortcut(has, persist) == has /\ persist

\* lines 28-29: check_yaml + yaml_load; FALSE when the profile cannot be loaded
ConfigLoads(profile) == profile # "missing"

\* line 30: cfg.tracker_type exists
HasTrackerType(profile) == profile # "nofield"

\* mutant: the assertion is missing
SupportedType_Any(tracker_type) == TRUE

\* line 30: the assertion on cfg.tracker_type
SupportedType(tracker_type) == tracker_type \in {"bytetrack", "botsort"}

\* mutant: multiple_videos is ignored
SharedAtInit_IgnoresFlag(fi, b, mv) == fi /\ b >= 1

\* line 34: one tracker for a batch of frames of the same video
SharedAtInit(fi, b, mv) == fi /\ b >= 1 /\ ~mv

\* mutant: the PerSlot loop stops one short, range(bs - 1)
NumInstances_OneShort(fi, b, mv) ==
    IF SharedAtInit(fi, b, mv) THEN 1 ELSE IF b >= 1 THEN b - 1 ELSE 0

\* lines 34-39: number of constructor calls of a successful initialization
NumInstances(fi, b, mv) == IF SharedAtInit(fi, b, mv) THEN 1 ELSE b

\* mutant: the new trackers are appended to the stored list
StoredOnSuccess_Appends(old, fresh) == old \o fresh

\* line 40: predictor.trackers = trackers, the list built by this call
StoredOnSuccess(old, fresh) == fresh

\* mutant: the list under construction is already the stored one
StoredOnFailure_Partial(has, old, partial) == [has |-> TRUE, trackers |-> partial]

\* an exception leaves lines 28-39 before line 40: predictor.trackers is
\* what it was (has: whether the attribute exists)
StoredOnFailure(has, old, partial) == [has |-> has, trackers |-> old]

\* what one non-skipped call does, given the profile it reads and the
\* constructor call that raises (failAt = 0: none does)
InitOutcome(profile, failAt, n) ==
    IF ~ConfigLoads(profile) THEN [outcome |-> "ConfigError", built |-> 0]
    ELSE IF ~HasTrackerType(profile) THEN [outcome |-> "ConfigError", built |-> 0]
    ELSE IF ~SupportedType(profile) THEN [outcome |-> "AssertionError", built |-> 0]
    ELSE IF n >= 1 /\ profile \notin DOMAIN TRACKER_MAP
         THEN [outcome |-> "KeyError", built |-> 0]
    ELSE IF failAt # 0 THEN [outcome |-> "ConstructError", built |-> failAt - 1]
    ELSE [outcome |-> "ok", built |-> n]

NotBuilt == "none"

\* the objects of h that the list `live` does not reference are reclaimed
Collect(h, live, free) ==
    [a \in DOMAIN h |-> IF a \in Range(live) THEN h[a] ELSE free]

Max(S) == IF S = {} THEN 0 ELSE CHOOSE x \in S : \A y \in S : y <= x

\* the objects a call constructed (addresses above `before`) and left
\* unreferenced are gone when it returns; their addresses are free again
Reclaim(h, live, before) == SubSeq(h, 1, Max({before} \cup Range(live)))

\* --- register_tracker -------------------------------------------------------
\* mutant: multiple_videos is not passed to the second partial(), the
\* reconcile handler runs with its default
register_tracker_DefaultFlag(persist, multiple_videos) ==
    [registered |-> TRUE,
     on_predict_start |-> [persist |-> persist, multiple_videos |-> multiple_videos],
     on_predict_postprocess_end |-> [multiple_videos |-> FALSE]]

\* lines 80-82: the handlers bound to the two events, each with the
\* keyword arguments that partial() fixes
register_tracker(persist, multiple_videos) ==
    [registered |-> TRUE,
     on_predict_start |-> [persist |-> persist, multiple_videos |-> multiple_videos],
     on_predict_postprocess_end |-> [multiple_videos |-> multiple_videos]]

\* lines 34, 53: what the two handlers read to choose the assignment mode
Topology(fi, b, mv) == [from_img |-> fi, bs |-> b, multiple_videos |-> mv]

NoRoute == Topology(FALSE, 0, FALSE)

NoInit == [outcome |-> "none", cfgRead |-> FALSE, profile |-> "", built |-> 0]

\* A tracking run starts: the callbacks are registered with (persist,
\* multiple_videos), the source is set up (from_img fi, batch size b) and
\* 'on_predict_start' is fired; lines 26-40 are the handler.  profile is what
\* the tracker profile holds, failAt the constructor call that raises (0: none).
on_predict_start(persist, multiple_videos, fi, b) ==
    /\ pc = "idle"
    /\ nbatch < MaxBatches
    /\ cb' = register_tracker(persist, multiple_videos)
    /\ from_img' = fi
    /\ bs' = b
    /\ IF PersistShortcut(hasTrackers, persist)
       THEN /\ lastInit' = [outcome |-> "skipped", cfgRead |-> FALSE,
                            profile |-> "", built |-> 0]
            /\ pc' = "loop"
            /\ UNCHANGED <<hasTrackers, trackers, heap, built, route,
                           ident, issued>>
       ELSE \E profile \in Profiles :
            \E failAt \in IF profile \in DOMAIN TRACKER_MAP
                          THEN 0 .. NumInstances(fi, b, multiple_videos) ELSE {0} :
            LET n == NumInstances(fi, b, multiple_videos)
                r == InitOutcome(profile, failAt, n)
                kind == IF profile \in DOMAIN TRACKER_MAP THEN profile ELSE "bytetrack"
                new == [k \in 1 .. r.built |-> Len(heap) + k]
                fail == StoredOnFailure(hasTrackers, trackers, new)
                all == heap \o [k \in 1 .. r.built |-> NewTracker(kind)]
                stored == IF r.outcome = "ok" THEN StoredOnSuccess(trackers, new)
                          ELSE fail.trackers
            IN /\ Len(heap) + r.built <= MaxTrackers
               /\ lastInit' = [outcome |-> r.outcome, cfgRead |-> TRUE,
                               profile |-> profile, built |-> r.built]
               /\ trackers' = stored
               /\ hasTrackers' = IF r.outcome = "ok" THEN TRUE ELSE fail.has
               /\ heap' = Reclaim(Collect(all, stored, Freed), stored, Len(heap))
               /\ ident' = Reclaim(Collect(ident \o [k \in 1 .. r.built |-> NoIds],
                                           stored, NoIds), stored, Len(heap))
               /\ issued' = Max({issued} \cup
                                {all[a].count : a \in DOMAIN all \ Range(stored)})
               /\ built' = IF r.outcome # "ok" THEN built
                           ELSE IF SharedAtInit(fi, b, multiple_videos)
                           THEN "Shared" ELSE "PerSlot"
               /\ route' = IF r.outcome # "ok" THEN route
                           ELSE Topology(fi, b, multiple_videos)
               /\ pc' = IF r.outcome = "ok" THEN "loop" ELSE "failed"
    /\ UNCHANGED <<results, det0, calls, reads, err, nbatch>>

\* --- on_predict_postprocess_end ---------------------------------------------
\* line 53
BatchOfFrames(fi, b, mv) == fi /\ b >= 1 /\ ~mv

\* mutant: empty detections are not skipped
SkipEmpty_Never(det) == FALSE

\* line 56: len(det) == 0
SkipEmpty(det) == Len(det) = 0

\* mutant: the slot's own tracker is used in either mode
SelectTracker_BySlot(bof, s) == s

\* mutant: the first tracker is used in either mode
SelectTracker_AlwaysFirst(bof, s) == 0

\* lines 59-62: index into predictor.trackers used for slot s
SelectTracker(bof, s) == IF bof THEN 0 ELSE s

\* mutant: an empty track list is not skipped
NoTracks_Never(tracks) == FALSE

\* line 63: len(tracks) == 0
NoTracks(tracks) == Len(tracks) = 0

\* line 65: idx = tracks[:, -1].tolist()
BackRefs(tracks) == [k \in 1 .. Len(tracks) |-> tracks[k].idx]

\* mutant: the first rows are kept, in detection order
SelectRows_InputOrder(res, idx) == [k \in 1 .. Len(idx) |-> res[k]]

\* line 66: predictor.results[i][idx]
SelectRows(res, idx) == [k \in 1 .. Len(idx) |-> res[idx[k] + 1]]

\* line 67: .update(boxes=tracks[:, :-1]): row k of the boxes is track k
\* without its last column
UpdateBoxes(res, tracks) ==
    [k \in 1 .. Len(res) |-> [res[k] EXCEPT !.box = tracks[k].box,
                                            !.id = tracks[k].id]]

\* lines 65-67
Reconciled(res, tracks) == UpdateBoxes(SelectRows(res, BackRefs(tracks)), tracks)

\* identities first reported for the objects of a result by tracker state idt
FirstReported(idt, res) ==
    [o \in Objects |->
        IF idt[o] # 0 THEN idt[o]
        ELSE IF \E k \in 1 .. Len(res) : res[k].obj = o
             THEN res[CHOOSE k \in 1 .. Len(res) : res[k].obj = o].id
             ELSE 0]

\* mutant: the element is taken out of the list (pop instead of index)
TrackerAt_Pops(trks, t) ==
    IF t < Len(trks)
    THEN [trackers |-> SubSeq(trks, 1, t) \o SubSeq(trks, t + 2, Len(trks)),
          at |-> trks[t + 1], err |-> ""]
    ELSE [trackers |-> trks, at |-> 0, err |-> "IndexError"]

\* lines 60, 62: predictor.trackers[t]; the list is read, never written, and
\* an index past its end raises
TrackerAt(trks, t) ==
    IF t < Len(trks)
    THEN [trackers |-> trks, at |-> trks[t + 1], err |-> ""]
    ELSE [trackers |-> trks, at |-> 0, err |-> "IndexError"]

\* mutant: the rewritten container is stored in the first slot
ResultSlot_First(s) == 0

\* line 66: predictor.results[i] = ..., the slot that is assigned
ResultSlot(s) == s

\* the slots (0-based) in which the containers of res1 and res2 differ
Differ(res1, res2) == {j - 1 : j \in {k \in DOMAIN res1 : res1[k] # res2[k]}}

\* lines 55-67: the states one iteration of the loop can leave, for slot s.
\* st holds what the handler reads and writes: the predictor's trackers and
\* results, the tracker objects, and the record of the reads and calls made.
\* A call records the slot, the tracker object, what was passed and
\* returned, the slots already rewritten when it was issued (done) and the
\* slots whose container the step changed (wrote).
SlotOutcomes(st, bof, s) ==
    LET det == st.results[s + 1]
        t == SelectTracker(bof, s)
        g == TrackerAt(st.trackers, t)
        rd == [st EXCEPT !.reads = Append(@, s)]
    IN IF SkipEmpty(det) THEN {rd}
       ELSE IF g.err # ""
       THEN {[rd EXCEPT !.trackers = g.trackers, !.err = g.err]}
       ELSE { LET a == g.at
                  u == TrackerUpdate(st.heap[a], det, out)
                  new == Reconciled(det, u.tracks)
                  res2 == IF NoTracks(u.tracks) THEN st.results
                          ELSE [st.results EXCEPT ![ResultSlot(s) + 1] = new]
              IN [rd EXCEPT
                    !.trackers = g.trackers,
                    !.heap[a] = u.state,
                    !.results = res2,
                    !.calls = Append(@, [slot |-> s, trk |-> a, det |-> det,
                                         tracks |-> u.tracks,
                                         batch |-> st.batch,
                                         done |-> Differ(st.det0, st.results),
                                         wrote |-> Differ(st.results, res2)]),
                    !.ident[a] = IF NoTracks(u.tracks) THEN @
                                 ELSE FirstReported(@, new)]
              : out \in TrackerOutputs(det) }

\* mutant: the slots are visited from the last to the first
SlotOrder_Reversed(b) == [k \in 1 .. b |-> b - k]

\* line 54: range(bs), the slots in the order the loop visits them
SlotOrder(b) == [k \in 1 .. b |-> k - 1]

\* line 54: for i in range(bs), over the slots still to visit; an exception
\* ends the loop
RECURSIVE SlotLoop(_, _, _)
SlotLoop(st, bof, todo) ==
    IF todo = <<>> \/ st.err # "" THEN {st}
    ELSE UNION {SlotLoop(st2, bof, Tail(todo))
                  : st2 \in SlotOutcomes(st, bof, Head(todo))}

\* The detector fills predictor.results with r for one batch and
\* 'on_predict_postprocess_end' is fired; lines 50-67 are the handler.
on_predict_postprocess_end(r) ==
    /\ pc = "loop"
    /\ reads = <<>>
    /\ nbatch < MaxBatches
    /\ SumLen(r) <= MaxDets
    /\ LET bof == BatchOfFrames(from_img, bs,
                                cb.on_predict_postprocess_end.multiple_videos)
           st0 == [trackers |-> trackers, heap |-> heap, results |-> r,
                   det0 |-> r, batch |-> nbatch + 1, reads |-> <<>>,
                   calls |-> <<>>, ident |-> ident, err |-> ""]
       IN \E fin \in SlotLoop(st0, bof, SlotOrder(bs)) :
            /\ trackers' = fin.trackers
            /\ heap' = fin.heap
            /\ results' = fin.results
            /\ calls' = fin.calls
            /\ reads' = fin.reads
            /\ ident' = fin.ident
            /\ err' = fin.err
            /\ pc' = IF fin.err = "" THEN "loop" ELSE "failed"
    /\ det0' = r
    /\ nbatch' = nbatch + 1
    /\ lastInit' = NoInit
    /\ UNCHANGED <<cb, from_img, bs, hasTrackers, built, route, issued>>

\* --- the pipeline around the handlers --------------------------------------
NoCallbacks ==
    [registered |-> FALSE,
     on_predict_start |-> [persist |-> FALSE, multiple_videos |-> FALSE],
     on_predict_postprocess_end |-> [multiple_videos |-> FALSE]]

\* The reconciled results of the batch are handed to the consumers of the
\* run; the detector overwrites predictor.results for the next batch and
\* nothing reads the old containers again.
YieldResults ==
    /\ pc = "loop"
    /\ reads # <<>>
    /\ results' = <<>>
    /\ det0' = <<>>
    /\ calls' = <<>>
    /\ reads' = <<>>
    /\ UNCHANGED <<cb, from_img, bs, hasTrackers, trackers, heap, pc, lastInit,
                   err, nbatch, built, route, ident, issued>>

\* The run is over (the source is exhausted, or a handler raised): what
\* belongs to the run is released.  The next run registers its callbacks and
\* sets up its source before anything reads them.
EndRun ==
    /\ pc \in {"loop", "failed"}
    /\ pc' = "idle"
    /\ cb' = NoCallbacks
    /\ from_img' = FALSE
    /\ bs' = 1
    /\ results' = <<>>
    /\ det0' = <<>>
    /\ calls' = <<>>
    /\ reads' = <<>>
    /\ lastInit' = NoInit
    /\ err' = ""
    /\ UNCHANGED <<hasTrackers, trackers, heap, nbatch, built, route,
                   ident, issued>>

\* --- specification ----------------------------------------------------------
Init ==
    /\ cb = NoCallbacks
    /\ from_img = FALSE
    /\ bs = 1
    /\ hasTrackers = FALSE
    /\ trackers = <<>>
    /\ heap = <<>>
    /\ results = <<>>
    /\ pc = "idle"
    /\ lastInit = NoInit
    /\ err = ""
    /\ nbatch = 0
    /\ det0 = <<>>
    /\ calls = <<>>
    /\ built = NotBuilt
    /\ route = NoRoute
    /\ reads = <<>>
    /\ ident = <<>>
    /\ issued = 0

Next ==
    \/ \E persist \in BOOLEAN, multiple_videos \in BOOLEAN :
       \E fi \in BOOLEAN, b \in 0 .. MaxBS :
          on_predict_start(persist, multiple_videos, fi, b)
    \/ \E r \in [1 .. bs -> Frames] : on_predict_postprocess_end(r)
    \/ YieldResults
    \/ EndRun

Spec == Init /\ [][Next]_vars

TypeOK ==
    /\ pc \in {"idle", "loop", "failed"}
    /\ bs \in 0 .. MaxBS
    /\ Len(heap) <= MaxTrackers
    /\ Len(ident) = Len(heap)
    /\ \A k \in DOMAIN trackers : trackers[k] \in DOMAIN heap
    /\ hasTrackers \/ trackers = <<>>
    /\ nbatch \in 0 .. MaxBatches

\* --- properties -------------------------------------------------------------
\* the update calls of the current batch
Calls == Range(calls)

\* the mode the two handlers compute from what they are given
SharedNow(mv) == from_img /\ bs >= 1 /\ ~mv

\* C1: for every slot with detections whose update returned tracks, the
\* slot's result has one entry per track, entry k being the original
\* detection at track k's back-reference, in tracker output order, with the
\* box data (region, identity) of track k
C1_ResultFollowsTracks ==
    \A c \in Calls : c.tracks # <<>> =>
        LET res == results[c.slot + 1]
            orig == det0[c.slot + 1]
        IN /\ Len(res) = Len(c.tracks)
           /\ \A k \in 1 .. Len(c.tracks) :
                 /\ res[k].obj = orig[c.tracks[k].idx + 1].obj
                 /\ res[k].box = c.tracks[k].box
                 /\ res[k].id = c.tracks[k].id

\* back-references [2, 0] over three detections a, b, c: the result is c, a
C1_Witness ==
    \E c \in Calls :
        /\ Len(det0[c.slot + 1]) = 3
        /\ Len(c.tracks) = 2
        /\ c.tracks[1].idx = 2 /\ c.tracks[2].idx = 0
        /\ Len(results[c.slot + 1]) = 2
        /\ results[c.slot + 1][1].obj = "c"
        /\ results[c.slot + 1][2].obj = "a"
        /\ results[c.slot + 1][1].id # 0

\* C2: a successful, non-skipped on_predict_start stores one instance when
\* the source is a single-image source, the batch size is at least 1 and
\* multiple_videos is false, and batch_size instances otherwise, all of them
\* different objects
C2_InstanceCount ==
    lastInit.outcome = "ok" =>
        /\ Len(trackers) =
              IF from_img /\ bs >= 1 /\ ~cb.on_predict_start.multiple_videos
              THEN 1 ELSE bs
        /\ \A j, k \in DOMAIN trackers : j # k => trackers[j] # trackers[k]
        /\ \A k \in DOMAIN trackers : trackers[k] \in DOMAIN heap

\* single-image source, batch size MaxBS, multiple_videos: MaxBS instances
C2_Witness ==
    /\ lastInit.outcome = "ok"
    /\ from_img /\ bs = MaxBS /\ cb.on_predict_start.multiple_videos
    /\ Len(trackers) = MaxBS

\* C3: a non-skipped on_predict_start that reads a tracker_type other than
\* 'bytetrack' and 'botsort' fails with the assertion error, constructs no
\* tracker and leaves the stored set as it was
C3_UnsupportedTypeFails ==
    [][ (pc = "idle" /\ lastInit'.profile \notin
                          {"", "missing", "nofield", "bytetrack", "botsort"})
        => /\ lastInit'.outcome = "AssertionError"
           /\ lastInit'.built = 0
           /\ pc' = "failed"
           /\ heap' = heap
           /\ trackers' = trackers
           /\ hasTrackers' = hasTrackers ]_vars

C3_Witness ==
    /\ pc = "failed"
    /\ lastInit.outcome = "AssertionError"
    /\ lastInit.profile = "deepsort"

\* C4: on_predict_start with persist on a predictor that has a tracker set
\* is a no-op: same list, same objects in the same state, nothing constructed,
\* no configuration read
C4_PersistIsNoOp ==
    [][ (pc = "idle" /\ hasTrackers /\ cb'.on_predict_start.persist)
        => /\ lastInit'.outcome = "skipped"
           /\ ~lastInit'.cfgRead
           /\ lastInit'.built = 0
           /\ trackers' = trackers
           /\ hasTrackers'
           /\ heap' = heap
           /\ ident' = ident
           /\ pc' = "loop" ]_vars

\* the call was skipped and a tracker of the kept set holds identities
C4_Witness ==
    /\ lastInit.outcome = "skipped"
    /\ \E k \in DOMAIN trackers : heap[trackers[k]].count > 0

\* C5, parts: a successful non-skipped call stores only objects it has
\* constructed; update calls reach only objects of the stored set, the
\* others never change
FreshSet ==
    (pc = "idle" /\ lastInit'.outcome = "ok") =>
        \A k \in DOMAIN trackers' :
            /\ trackers'[k] > Len(heap)
            /\ heap'[trackers'[k]].count = 0

OnlyStoredUpdated ==
    /\ \A c \in Range(calls') : c.trk \in Range(trackers')
    /\ \A a \in DOMAIN heap : a \notin Range(trackers) => heap'[a] = heap[a]

\* no result carries an identity that a discarded tracker had issued
OldIdentitiesUnseen ==
    \A s \in DOMAIN results : \A k \in DOMAIN results[s] :
        results[s][k].id = 0 \/ results[s][k].id > issued

\* every identity in a result is held by the tracker of the stored set that
\* served the slot
ReportedByStored ==
    \A c \in Calls : c.tracks # <<>> =>
        /\ c.trk \in Range(trackers)
        /\ \A k \in DOMAIN results[c.slot + 1] :
              LET e == results[c.slot + 1][k]
              IN e.id # 0 /\ heap[c.trk].ids[e.obj] = e.id

C6_EmptySlotSkipped ==
    /\ \A s \in DOMAIN det0 : det0[s] = <<>> =>
          /\ results[s] = det0[s]
          /\ \A c \in Calls : c.slot # s - 1
    /\ \A c \in Calls : c.det # <<>>

\* an empty slot before a slot that was passed to the one shared tracker
C6_Witness ==
    /\ pc = "loop"
    /\ built = "Shared"
    /\ Len(det0) >= 2
    /\ det0[1] = <<>>
    /\ \E c \in Calls : c.slot = 1

\* the index a handler uses for each slot exists in the stored set
IndicesInRange ==
    IF SharedNow(cb.on_predict_postprocess_end.multiple_videos)
    THEN Len(trackers) >= 1 ELSE Len(trackers) >= bs

\* C7: a slot whose update returns no track keeps its result, and the loop
\* goes on: no exception, the later slots with detections get their update
C7_NoTracksSkipped ==
    /\ \A c \in Calls : c.tracks = <<>> => results[c.slot + 1] = det0[c.slot + 1]
    /\ (det0 # <<>> /\ IndicesInRange) =>
          /\ err = ""
          /\ pc = "loop"
          /\ \A s \in DOMAIN det0 : det0[s] # <<>> => \E c \in Calls : c.slot = s - 1

\* no track for one slot, tracks for a later slot of the same batch
C7_Witness ==
    \E c, d \in Calls :
        /\ c.tracks = <<>>
        /\ d.slot > c.slot
        /\ d.tracks # <<>>
        /\ results[c.slot + 1] = det0[c.slot + 1]
        /\ results[c.slot + 1] # <<>>

\* C8 as claimed: between two constructions of the set, every update call
\* for slot s reaches the instance slot s was bound to when the set was
\* built (instance 0 for every slot of a Shared set, instance s of a PerSlot
\* set), whatever source kind, batch size and flag the handler sees
C8_Original ==
    \A c \in Calls :
        /\ built = "Shared" => c.trk = trackers[1]
        /\ (built = "PerSlot" /\ c.slot < Len(trackers))
              => c.trk = trackers[c.slot + 1]

\* C9: a failing on_predict_start leaves predictor.trackers unwritten and
\* keeps no object it had constructed; the stored set changes only by a
\* successful call, to the full set of its mode
C9_InitIsAtomic ==
    [][ /\ (pc = "idle" /\ pc' = "failed") =>
              /\ trackers' = trackers
              /\ hasTrackers' = hasTrackers
              /\ heap' = heap
        /\ (trackers' # trackers \/ hasTrackers' # hasTrackers) =>
              /\ pc = "idle"
              /\ lastInit'.outcome = "ok"
              /\ hasTrackers'
              /\ Len(trackers') =
                    IF from_img' /\ bs' >= 1 /\ ~cb'.on_predict_start.multiple_videos
                    THEN 1 ELSE bs' ]_vars

\* a constructor raised after at least one tracker had been constructed
C9_Witness ==
    /\ pc = "failed"
    /\ lastInit.outcome = "ConstructError"
    /\ lastInit.built >= 1

\* C10: in Shared mode every slot of every batch is passed to the one object
\* trackers[0], and an object shown in a reconciled result carries the
\* identity under which that tracker first reported it
C10_SharedContinuity ==
    \A c \in Calls :
        /\ SharedNow(cb.on_predict_postprocess_end.multiple_videos)
              => c.trk = trackers[1]
        /\ c.tracks # <<>> =>
              \A k \in DOMAIN results[c.slot + 1] :
                  LET e == results[c.slot + 1][k]
                  IN e.id # 0 /\ e.id = ident[c.trk][e.obj]

\* two batches through one Shared tracker: a is reported in the first, c
\* joins ahead of it in the second, and a still is identity 1
C10_Witness ==
    /\ nbatch = 2
    /\ built = "Shared"
    /\ Len(trackers) = 1
    /\ issued = 0
    /\ heap[trackers[1]].ids = [o \in Objects |->
                                  IF o = "a" THEN 1 ELSE IF o = "c" THEN 2 ELSE 0]
    /\ \E c \in Calls :
          /\ c.trk = trackers[1]
          /\ \E k \in DOMAIN results[c.slot + 1] :
                results[c.slot + 1][k] = [obj |-> "a", box |-> "kf", id |-> 1]

\* C11: the update call for slot i passes slot i's detections to instance 0
\* of the stored set when the handler's mode is Shared (single-image source,
\* batch size >= 1, multiple_videos false) and to instance i when it is
\* PerSlot; there is no other update call for slot i
C11_TrackerForSlot ==
    \A c \in Calls :
        LET k == IF SharedNow(cb.on_predict_postprocess_end.multiple_videos)
                 THEN 0 ELSE c.slot
        IN /\ k < Len(trackers)
           /\ c.trk = trackers[k + 1]
           /\ c.det = det0[c.slot + 1]
           /\ \A d \in Calls : d.slot = c.slot => d = c

\* PerSlot mode: slot 0 reached instance 0 and slot 1 reached instance 1
C11_Witness ==
    /\ ~SharedNow(cb.on_predict_postprocess_end.multiple_videos)
    /\ \E c, d \in Calls :
          /\ c.slot = 0 /\ c.trk = trackers[1]
          /\ d.slot = 1 /\ d.trk = trackers[2]
          /\ c.trk # d.trk

\* C12: the update calls of a batch are issued in increasing slot order, at
\* most one per slot, all for the batch produced last; when the call for a
\* slot is issued, the results of the earlier slots are already rewritten
\* (exactly those whose update returned tracks); so every tracker receives
\* its frames in frame order
C12_FrameOrder ==
    /\ \A j, k \in DOMAIN reads : j < k => reads[j] < reads[k]
    /\ \A j, k \in DOMAIN calls : j < k => calls[j].slot < calls[k].slot
    /\ \A k \in DOMAIN calls :
          /\ calls[k].batch = nbatch
          /\ calls[k].slot \in Range(reads)
          /\ calls[k].done =
                {calls[j].slot : j \in {i \in 1 .. k - 1 : calls[i].tracks # <<>>}}

\* second batch, Shared mode: slot 0 was rewritten, then slot 1 was passed
\* to the same tracker
C12_Witness ==
    /\ nbatch = 2
    /\ built = "Shared"
    /\ Len(calls) = 2
    /\ calls[1].trk = calls[2].trk
    /\ calls[1].slot = 0 /\ calls[2].slot = 1
    /\ calls[1].tracks # <<>>
    /\ calls[2].done = {0}

\* C13: on_predict_start with persist on a predictor that has a tracker set
\* keeps the list, its objects and the topology it was built for, whatever
\* the topology of the new run; an existing set changes only by an
\* on_predict_start call without persist, never by reconciliation
C13_NoSelfHeal ==
    [][ /\ (pc = "idle" /\ hasTrackers /\ cb'.on_predict_start.persist) =>
              /\ trackers' = trackers
              /\ \A k \in DOMAIN trackers :
                    heap'[trackers[k]] = heap[trackers[k]]
              /\ route' = route
              /\ built' = built
        /\ (hasTrackers /\ (trackers' # trackers \/ route' # route)) =>
              /\ pc = "idle"
              /\ ~cb'.on_predict_start.persist ]_vars

\* a set built for one slot was kept for a run with two slots: it still has
\* one instance after the batch, whose slot 1 found no tracker
C13_Witness ==
    /\ pc = "failed"
    /\ cb.on_predict_start.persist
    /\ route.bs = 1 /\ bs = 2
    /\ built = "PerSlot"
    /\ Len(trackers) = 1
    /\ det0 # <<>>
    /\ err = "IndexError"

\* C14: the instances stored by a successful on_predict_start are all built
\* by the constructor that TRACKER_MAP holds for the tracker_type read, from
\* the configuration read by the call, with frame rate 30; the instances of
\* a stored set are of one kind
C14_SameConstruction ==
    /\ lastInit.outcome = "ok" =>
          /\ lastInit.built = Len(trackers)
          /\ \A k \in DOMAIN trackers :
                /\ heap[trackers[k]].kind = TRACKER_MAP[lastInit.profile]
                /\ heap[trackers[k]].args = lastInit.profile
                /\ heap[trackers[k]].frame_rate = 30
    /\ \A j, k \in DOMAIN trackers :
          /\ heap[trackers[j]].kind = heap[trackers[k]].kind
          /\ heap[trackers[j]].args = heap[trackers[k]].args
          /\ heap[trackers[j]].frame_rate = heap[trackers[k]].frame_rate

\* PerSlot mode, batch size MaxBS, tracker_type 'botsort'
C14_Witness ==
    /\ lastInit.outcome = "ok"
    /\ lastInit.profile = "botsort"
    /\ built = "PerSlot"
    /\ Len(trackers) = MaxBS
    /\ \A k \in DOMAIN trackers : heap[trackers[k]].kind = "BOTSORT"

\* C15 as claimed: the instances of a set built in PerSlot mode are pairwise
\* different objects, and instance i of such a set is passed the detections
\* of slot i only, in every reconcile call made while the set is stored
C15_Original ==
    built = "PerSlot" =>
        /\ \A j, k \in DOMAIN trackers : j # k => trackers[j] # trackers[k]
        /\ \A c \in Calls : \A i \in DOMAIN trackers :
              c.trk = trackers[i] => c.slot = i - 1

\* source kind, batch size and flag of the run are those the stored set was
\* built for
TopologyUnchanged ==
    route = Topology(from_img, bs, cb.on_predict_postprocess_end.multiple_videos)

\* C16: in a run whose on_predict_start succeeded and whose source kind,
\* batch size and flag are those the set was built for, every index the
\* reconcile handler uses (0 in Shared mode, the slot in PerSlot mode) exists
\* in the stored set and no access fails; an access past the end of the set
\* happens only in a run that kept the set by persist for another topology
C16_IndicesExist ==
    /\ (pc = "loop" /\ TopologyUnchanged) =>
          /\ IndicesInRange
          /\ \A s \in 0 .. bs - 1 :
                SelectTracker(SharedNow(cb.on_predict_postprocess_end.multiple_videos), s)
                   < Len(trackers)
          /\ \A c \in Calls : \E k \in DOMAIN trackers : c.trk = trackers[k]
    /\ (pc \in {"loop", "failed"} /\ hasTrackers /\ TopologyUnchanged) =>
          err # "IndexError"
    /\ err = "IndexError" =>
          /\ cb.on_predict_start.persist
          /\ ~TopologyUnchanged

\* second batch of a PerSlot set of two, kept by persist for the topology it
\* was built for: both slots reached their tracker
C16_Witness ==
    /\ pc = "loop"
    /\ nbatch = 2
    /\ cb.on_predict_start.persist
    /\ TopologyUnchanged
    /\ built = "PerSlot"
    /\ Len(trackers) = 2
    /\ \E c, d \in Calls : c.slot = 0 /\ d.slot = 1 /\ d.trk = trackers[2]

\* C17: a reconcile call leaves predictor.trackers as it is (same length,
\* same objects in the same order); the stored set is written only by an
\* on_predict_start call that is not skipped by the persist shortcut and
\* succeeds
C17_OnlyStartWritesSet ==
    [][ /\ nbatch' # nbatch =>
              /\ trackers' = trackers
              /\ hasTrackers' = hasTrackers
        /\ (trackers' # trackers \/ hasTrackers' # hasTrackers) =>
              /\ pc = "idle"
              /\ nbatch' = nbatch
              /\ ~PersistShortcut(hasTrackers, cb'.on_predict_start.persist)
              /\ lastInit'.outcome = "ok"
              /\ lastInit'.cfgRead ]_vars

\* a batch was reconciled by both trackers of a set of two, which is still
\* the set of two
C17_Witness ==
    /\ nbatch >= 1
    /\ Len(trackers) = 2
    /\ Len(calls) = 2
    /\ heap[trackers[1]].count > 0
    /\ heap[trackers[2]].count > 0

\* C18: the step for slot i changes no result container but slot i's own
\* (and that one exactly when the update returned tracks); a slot without
\* such a step holds what the detector left; only slots 0 .. bs-1 are
\* fetched or assigned
C18_WritesOwnSlot ==
    /\ Len(results) = Len(det0)
    /\ \A c \in Calls :
          /\ c.slot \in 0 .. bs - 1
          /\ c.wrote = IF c.tracks # <<>> THEN {c.slot} ELSE {}
    /\ \A s \in DOMAIN results :
          (\A c \in Calls : c.slot = s - 1 => c.tracks = <<>>)
             => results[s] = det0[s]
    /\ \A k \in DOMAIN reads : reads[k] \in 0 .. bs - 1

\* the step for slot 1 rewrote slot 1 and left slot 0, which has
\* detections and was passed to a tracker that returned nothing, untouched
C18_Witness ==
    /\ Len(det0) = 2
    /\ det0[1] # <<>>
    /\ results[1] = det0[1]
    /\ results[2] # det0[2]
    /\ \E c \in Calls : c.slot = 1 /\ c.wrote = {1}

====
